---- MODULE Spec2Model ----
(***************************************************************************)
(* Article enrichment and labelling pipeline of data_loader.py:            *)
(*   fetch_content_with_retry, is_valid_image_url,                         *)
(*   enrich_articles_with_scraping, assign_labels_and_scores.              *)
(*                                                                         *)
(* Python strings are sequences of characters, so that slicing, lower(),   *)
(* strip(), "in", startswith and endswith are computed the way the code    *)
(* computes them.  A character is a string: a printable ASCII character,   *)
(* tab, line feed, form feed and carriage return are the one-character     *)
(* string of that character; every other character is "U+" and its code    *)
(* point in hexadecimal, four digits or more ("U+00C9", "U+3000",          *)
(* "U+1F600"), see Chr.  The grave accent, which a TLA+ string cannot      *)
(* hold, is "U+0060".  Python's None is the one-element tuple None.        *)
(* Scores are integers in hundredths (0.2 is 20, 1.0 is 100).              *)
(***************************************************************************)
EXTENDS Integers, Sequences, FiniteSets, TLC

VARIABLES
    raw,              \* load_raw_data(): the article rows, cached for the process
    df,               \* the DataFrame enrich works on and returns
    pc,               \* position in enrich_articles_with_scraping, or in
                      \* fetch_content_with_retry when that is run on its own
    scraped_text,     \* st.session_state.scraped_data['url_to_text']
    scraped_image,    \* st.session_state.scraped_data['url_to_image']
    failed_snippets,  \* st.session_state.scraped_data['failed']['snippet']
    failed_images,    \* st.session_state.scraped_data['failed']['image']
    urls_to_fetch,    \* the worklist of the running invocation
    pos,              \* index of the worklist entry being processed
    fetch_type,       \* fetch_content_with_retry: "snippet" | "image" | "none"
    i,                \* fetch_content_with_retry: loop variable of range(retries)
    trace,            \* outcomes of the GET requests of the current/last fetch call
    sleeps,           \* time.sleep arguments of the current/last fetch call
    result,           \* return value of the last fetch call
    calls,            \* fetch calls of the running invocation, per <<url, kind>>
    timedOut,         \* <<url, kind>> whose fetch call ended in retries timeouts
    stale,            \* the earlier script runs of the session that were told
                      \* to stop and are still in an iteration of the loop
    prev,             \* .left: the cache as the last completed invocation left
                      \* it; .df: what the invocation before the running one
                      \* returned (see Begin), or NoRun
    scorer,           \* the label scorer's input, jitter and output
    validator         \* the image validator's input and output

vars == <<raw, df, pc, scraped_text, scraped_image, failed_snippets,
          failed_images, urls_to_fetch, pos, fetch_type, i, trace, sleeps,
          result, calls, timedOut, stale, prev, scorer, validator>>

-----------------------------------------------------------------------------
(* Bounds of the model *)

MaxRows == 2
\* Earlier script runs that are still executing beside the running one
MaxStale == 1

-----------------------------------------------------------------------------
(* Python values and string operations *)

None == <<"None">>

Min(a, b) == IF a <= b THEN a ELSE b

\* s[:n]
Take(s, n) == SubSeq(s, 1, Min(n, Len(s)))

\* The characters of code points 32 to 126 (code point 96 by its name)
AsciiPrintable == <<
    " ", "!", "\"", "#", "$", "%", "&", "'", "(", ")", "*", "+",
    ",", "-", ".", "/", "0", "1", "2", "3", "4", "5", "6", "7",
    "8", "9", ":", ";", "<", "=", ">", "?", "@", "A", "B", "C",
    "D", "E", "F", "G", "H", "I", "J", "K", "L", "M", "N", "O",
    "P", "Q", "R", "S", "T", "U", "V", "W", "X", "Y", "Z", "[",
    "\\", "]", "^", "_", "U+0060", "a", "b", "c", "d", "e", "f", "g",
    "h", "i", "j", "k", "l", "m", "n", "o", "p", "q", "r", "s",
    "t", "u", "v", "w", "x", "y", "z", "{", "|", "}", "~" >>

\* n in hexadecimal, width digits
RECURSIVE Hex(_, _)
Hex(n, width) ==
    IF width = 0 THEN ""
    ELSE Hex(n \div 16, width - 1) \o
         <<"0", "1", "2", "3", "4", "5", "6", "7", "8", "9", "A", "B", "C",
           "D", "E", "F">>[(n % 16) + 1]

\* chr(n): the character of code point n
Chr(n) ==
    IF n \in 32..126 THEN AsciiPrintable[n - 31]
    ELSE IF n = 9 THEN "\t"
    ELSE IF n = 10 THEN "\n"
    ELSE IF n = 12 THEN "\f"
    ELSE IF n = 13 THEN "\r"
    ELSE "U+" \o Hex(n, IF n < 65536 THEN 4 ELSE IF n < 1048576 THEN 5 ELSE 6)

\* The characters of a table of code point ranges <<first, last>>
CharsOf(ranges) ==
    {Chr(n) : n \in UNION {ranges[k][1]..ranges[k][2] : k \in 1..Len(ranges)}}

\* The code points str.strip() removes (those of str.isspace()): U+0009 to
\* U+000D, U+001C to U+0020, U+0085, U+00A0, U+1680, U+2000 to U+200A,
\* U+2028, U+2029, U+202F, U+205F, U+3000.
WhitespaceRanges == <<
    <<9, 13>>, <<28, 32>>, <<133, 133>>, <<160, 160>>, <<5760, 5760>>,
    <<8192, 8202>>, <<8232, 8233>>, <<8239, 8239>>, <<8287, 8287>>,
    <<12288, 12288>> >>

Whitespace == CharsOf(WhitespaceRanges)

RECURSIVE LStrip(_)
LStrip(s) ==
    IF s # <<>> /\ Head(s) \in Whitespace THEN LStrip(Tail(s)) ELSE s

RECURSIVE RStrip(_)
RStrip(s) ==
    IF s # <<>> /\ s[Len(s)] \in Whitespace
    THEN RStrip(SubSeq(s, 1, Len(s) - 1)) ELSE s

\* str.strip()
Strip(s) == RStrip(LStrip(s))

\* sub in s
Contains(s, sub) ==
    \E k \in 1..(Len(s) - Len(sub) + 1) : SubSeq(s, k, k + Len(sub) - 1) = sub

\* s.startswith(sub)
StartsWith(s, sub) == Len(sub) <= Len(s) /\ SubSeq(s, 1, Len(sub)) = sub

\* s.endswith(sub)
EndsWith(s, sub) ==
    Len(sub) <= Len(s) /\ SubSeq(s, Len(s) - Len(sub) + 1, Len(s)) = sub

\* str.lower(), Unicode 14.0 (CPython 3.11).  The simple lower case
\* mappings, as <<first, last, step, delta>>: the code points first,
\* first + step, ..., last are mapped to themselves plus delta.
LowerRanges == <<
    <<65, 90, 1, 32>>, <<192, 214, 1, 32>>, <<216, 222, 1, 32>>,
    <<256, 302, 2, 1>>, <<306, 310, 2, 1>>, <<313, 327, 2, 1>>,
    <<330, 374, 2, 1>>, <<376, 376, 1, -121>>, <<377, 381, 2, 1>>,
    <<385, 385, 1, 210>>, <<386, 388, 2, 1>>, <<390, 390, 1, 206>>,
    <<391, 391, 1, 1>>, <<393, 394, 1, 205>>, <<395, 395, 1, 1>>,
    <<398, 398, 1, 79>>, <<399, 399, 1, 202>>, <<400, 400, 1, 203>>,
    <<401, 401, 1, 1>>, <<403, 403, 1, 205>>, <<404, 404, 1, 207>>,
    <<406, 406, 1, 211>>, <<407, 407, 1, 209>>, <<408, 408, 1, 1>>,
    <<412, 412, 1, 211>>, <<413, 413, 1, 213>>, <<415, 415, 1, 214>>,
    <<416, 420, 2, 1>>, <<422, 422, 1, 218>>, <<423, 423, 1, 1>>,
    <<425, 425, 1, 218>>, <<428, 428, 1, 1>>, <<430, 430, 1, 218>>,
    <<431, 431, 1, 1>>, <<433, 434, 1, 217>>, <<435, 437, 2, 1>>,
    <<439, 439, 1, 219>>, <<440, 440, 1, 1>>, <<444, 444, 1, 1>>,
    <<452, 452, 1, 2>>, <<453, 453, 1, 1>>, <<455, 455, 1, 2>>,
    <<456, 456, 1, 1>>, <<458, 458, 1, 2>>, <<459, 475, 2, 1>>,
    <<478, 494, 2, 1>>, <<497, 497, 1, 2>>, <<498, 500, 2, 1>>,
    <<502, 502, 1, -97>>, <<503, 503, 1, -56>>, <<504, 542, 2, 1>>,
    <<544, 544, 1, -130>>, <<546, 562, 2, 1>>, <<570, 570, 1, 10795>>,
    <<571, 571, 1, 1>>, <<573, 573, 1, -163>>, <<574, 574, 1, 10792>>,
    <<577, 577, 1, 1>>, <<579, 579, 1, -195>>, <<580, 580, 1, 69>>,
    <<581, 581, 1, 71>>, <<582, 590, 2, 1>>, <<880, 882, 2, 1>>,
    <<886, 886, 1, 1>>, <<895, 895, 1, 116>>, <<902, 902, 1, 38>>,
    <<904, 906, 1, 37>>, <<908, 908, 1, 64>>, <<910, 911, 1, 63>>,
    <<913, 929, 1, 32>>, <<931, 939, 1, 32>>, <<975, 975, 1, 8>>,
    <<984, 1006, 2, 1>>, <<1012, 1012, 1, -60>>, <<1015, 1015, 1, 1>>,
    <<1017, 1017, 1, -7>>, <<1018, 1018, 1, 1>>, <<1021, 1023, 1, -130>>,
    <<1024, 1039, 1, 80>>, <<1040, 1071, 1, 32>>, <<1120, 1152, 2, 1>>,
    <<1162, 1214, 2, 1>>, <<1216, 1216, 1, 15>>, <<1217, 1229, 2, 1>>,
    <<1232, 1326, 2, 1>>, <<1329, 1366, 1, 48>>, <<4256, 4293, 1, 7264>>,
    <<4295, 4295, 1, 7264>>, <<4301, 4301, 1, 7264>>, <<5024, 5103, 1, 38864>>,
    <<5104, 5109, 1, 8>>, <<7312, 7354, 1, -3008>>, <<7357, 7359, 1, -3008>>,
    <<7680, 7828, 2, 1>>, <<7838, 7838, 1, -7615>>, <<7840, 7934, 2, 1>>,
    <<7944, 7951, 1, -8>>, <<7960, 7965, 1, -8>>, <<7976, 7983, 1, -8>>,
    <<7992, 7999, 1, -8>>, <<8008, 8013, 1, -8>>, <<8025, 8031, 2, -8>>,
    <<8040, 8047, 1, -8>>, <<8072, 8079, 1, -8>>, <<8088, 8095, 1, -8>>,
    <<8104, 8111, 1, -8>>, <<8120, 8121, 1, -8>>, <<8122, 8123, 1, -74>>,
    <<8124, 8124, 1, -9>>, <<8136, 8139, 1, -86>>, <<8140, 8140, 1, -9>>,
    <<8152, 8153, 1, -8>>, <<8154, 8155, 1, -100>>, <<8168, 8169, 1, -8>>,
    <<8170, 8171, 1, -112>>, <<8172, 8172, 1, -7>>, <<8184, 8185, 1, -128>>,
    <<8186, 8187, 1, -126>>, <<8188, 8188, 1, -9>>, <<8486, 8486, 1, -7517>>,
    <<8490, 8490, 1, -8383>>, <<8491, 8491, 1, -8262>>, <<8498, 8498, 1, 28>>,
    <<8544, 8559, 1, 16>>, <<8579, 8579, 1, 1>>, <<9398, 9423, 1, 26>>,
    <<11264, 11311, 1, 48>>, <<11360, 11360, 1, 1>>, <<11362, 11362, 1, -10743>>,
    <<11363, 11363, 1, -3814>>, <<11364, 11364, 1, -10727>>, <<11367, 11371, 2, 1>>,
    <<11373, 11373, 1, -10780>>, <<11374, 11374, 1, -10749>>, <<11375, 11375, 1, -10783>>,
    <<11376, 11376, 1, -10782>>, <<11378, 11378, 1, 1>>, <<11381, 11381, 1, 1>>,
    <<11390, 11391, 1, -10815>>, <<11392, 11490, 2, 1>>, <<11499, 11501, 2, 1>>,
    <<11506, 11506, 1, 1>>, <<42560, 42604, 2, 1>>, <<42624, 42650, 2, 1>>,
    <<42786, 42798, 2, 1>>, <<42802, 42862, 2, 1>>, <<42873, 42875, 2, 1>>,
    <<42877, 42877, 1, -35332>>, <<42878, 42886, 2, 1>>, <<42891, 42891, 1, 1>>,
    <<42893, 42893, 1, -42280>>, <<42896, 42898, 2, 1>>, <<42902, 42920, 2, 1>>,
    <<42922, 42922, 1, -42308>>, <<42923, 42923, 1, -42319>>, <<42924, 42924, 1, -42315>>,
    <<42925, 42925, 1, -42305>>, <<42926, 42926, 1, -42308>>, <<42928, 42928, 1, -42258>>,
    <<42929, 42929, 1, -42282>>, <<42930, 42930, 1, -42261>>, <<42931, 42931, 1, 928>>,
    <<42932, 42946, 2, 1>>, <<42948, 42948, 1, -48>>, <<42949, 42949, 1, -42307>>,
    <<42950, 42950, 1, -35384>>, <<42951, 42953, 2, 1>>, <<42960, 42960, 1, 1>>,
    <<42966, 42968, 2, 1>>, <<42997, 42997, 1, 1>>, <<65313, 65338, 1, 32>>,
    <<66560, 66599, 1, 40>>, <<66736, 66771, 1, 40>>, <<66928, 66938, 1, 39>>,
    <<66940, 66954, 1, 39>>, <<66956, 66962, 1, 39>>, <<66964, 66965, 1, 39>>,
    <<68736, 68786, 1, 64>>, <<71840, 71871, 1, 32>>, <<93760, 93791, 1, 32>>,
    <<125184, 125217, 1, 34>> >>

\* The code points that are cased and not case-ignorable, as <<first, last>>
CasedRanges == <<
    <<65, 90>>, <<97, 122>>, <<170, 170>>, <<181, 181>>, <<186, 186>>,
    <<192, 214>>, <<216, 246>>, <<248, 442>>, <<444, 447>>, <<452, 659>>,
    <<661, 687>>, <<880, 883>>, <<886, 887>>, <<891, 893>>, <<895, 895>>,
    <<902, 902>>, <<904, 906>>, <<908, 908>>, <<910, 929>>, <<931, 1013>>,
    <<1015, 1153>>, <<1162, 1327>>, <<1329, 1366>>, <<1376, 1416>>, <<4256, 4293>>,
    <<4295, 4295>>, <<4301, 4301>>, <<4304, 4346>>, <<4349, 4351>>, <<5024, 5109>>,
    <<5112, 5117>>, <<7296, 7304>>, <<7312, 7354>>, <<7357, 7359>>, <<7424, 7467>>,
    <<7531, 7543>>, <<7545, 7578>>, <<7680, 7957>>, <<7960, 7965>>, <<7968, 8005>>,
    <<8008, 8013>>, <<8016, 8023>>, <<8025, 8025>>, <<8027, 8027>>, <<8029, 8029>>,
    <<8031, 8061>>, <<8064, 8116>>, <<8118, 8124>>, <<8126, 8126>>, <<8130, 8132>>,
    <<8134, 8140>>, <<8144, 8147>>, <<8150, 8155>>, <<8160, 8172>>, <<8178, 8180>>,
    <<8182, 8188>>, <<8450, 8450>>, <<8455, 8455>>, <<8458, 8467>>, <<8469, 8469>>,
    <<8473, 8477>>, <<8484, 8484>>, <<8486, 8486>>, <<8488, 8488>>, <<8490, 8493>>,
    <<8495, 8500>>, <<8505, 8505>>, <<8508, 8511>>, <<8517, 8521>>, <<8526, 8526>>,
    <<8544, 8575>>, <<8579, 8580>>, <<9398, 9449>>, <<11264, 11387>>, <<11390, 11492>>,
    <<11499, 11502>>, <<11506, 11507>>, <<11520, 11557>>, <<11559, 11559>>, <<11565, 11565>>,
    <<42560, 42605>>, <<42624, 42651>>, <<42786, 42863>>, <<42865, 42887>>, <<42891, 42894>>,
    <<42896, 42954>>, <<42960, 42961>>, <<42963, 42963>>, <<42965, 42969>>, <<42997, 42998>>,
    <<43002, 43002>>, <<43824, 43866>>, <<43872, 43880>>, <<43888, 43967>>, <<64256, 64262>>,
    <<64275, 64279>>, <<65313, 65338>>, <<65345, 65370>>, <<66560, 66639>>, <<66736, 66771>>,
    <<66776, 66811>>, <<66928, 66938>>, <<66940, 66954>>, <<66956, 66962>>, <<66964, 66965>>,
    <<66967, 66977>>, <<66979, 66993>>, <<66995, 67001>>, <<67003, 67004>>, <<68736, 68786>>,
    <<68800, 68850>>, <<71840, 71903>>, <<93760, 93823>>, <<119808, 119892>>, <<119894, 119964>>,
    <<119966, 119967>>, <<119970, 119970>>, <<119973, 119974>>, <<119977, 119980>>, <<119982, 119993>>,
    <<119995, 119995>>, <<119997, 120003>>, <<120005, 120069>>, <<120071, 120074>>, <<120077, 120084>>,
    <<120086, 120092>>, <<120094, 120121>>, <<120123, 120126>>, <<120128, 120132>>, <<120134, 120134>>,
    <<120138, 120144>>, <<120146, 120485>>, <<120488, 120512>>, <<120514, 120538>>, <<120540, 120570>>,
    <<120572, 120596>>, <<120598, 120628>>, <<120630, 120654>>, <<120656, 120686>>, <<120688, 120712>>,
    <<120714, 120744>>, <<120746, 120770>>, <<120772, 120779>>, <<122624, 122633>>, <<122635, 122654>>,
    <<125184, 125251>>, <<127280, 127305>>, <<127312, 127337>>, <<127344, 127369>> >>

\* The case-ignorable code points, as <<first, last>>
CaseIgnorableRanges == <<
    <<39, 39>>, <<46, 46>>, <<58, 58>>, <<94, 94>>, <<96, 96>>,
    <<168, 168>>, <<173, 173>>, <<175, 175>>, <<180, 180>>, <<183, 184>>,
    <<688, 879>>, <<884, 885>>, <<890, 890>>, <<900, 901>>, <<903, 903>>,
    <<1155, 1161>>, <<1369, 1369>>, <<1375, 1375>>, <<1425, 1469>>, <<1471, 1471>>,
    <<1473, 1474>>, <<1476, 1477>>, <<1479, 1479>>, <<1524, 1524>>, <<1536, 1541>>,
    <<1552, 1562>>, <<1564, 1564>>, <<1600, 1600>>, <<1611, 1631>>, <<1648, 1648>>,
    <<1750, 1757>>, <<1759, 1768>>, <<1770, 1773>>, <<1807, 1807>>, <<1809, 1809>>,
    <<1840, 1866>>, <<1958, 1968>>, <<2027, 2037>>, <<2042, 2042>>, <<2045, 2045>>,
    <<2070, 2093>>, <<2137, 2139>>, <<2184, 2184>>, <<2192, 2193>>, <<2200, 2207>>,
    <<2249, 2306>>, <<2362, 2362>>, <<2364, 2364>>, <<2369, 2376>>, <<2381, 2381>>,
    <<2385, 2391>>, <<2402, 2403>>, <<2417, 2417>>, <<2433, 2433>>, <<2492, 2492>>,
    <<2497, 2500>>, <<2509, 2509>>, <<2530, 2531>>, <<2558, 2558>>, <<2561, 2562>>,
    <<2620, 2620>>, <<2625, 2626>>, <<2631, 2632>>, <<2635, 2637>>, <<2641, 2641>>,
    <<2672, 2673>>, <<2677, 2677>>, <<2689, 2690>>, <<2748, 2748>>, <<2753, 2757>>,
    <<2759, 2760>>, <<2765, 2765>>, <<2786, 2787>>, <<2810, 2815>>, <<2817, 2817>>,
    <<2876, 2876>>, <<2879, 2879>>, <<2881, 2884>>, <<2893, 2893>>, <<2901, 2902>>,
    <<2914, 2915>>, <<2946, 2946>>, <<3008, 3008>>, <<3021, 3021>>, <<3072, 3072>>,
    <<3076, 3076>>, <<3132, 3132>>, <<3134, 3136>>, <<3142, 3144>>, <<3146, 3149>>,
    <<3157, 3158>>, <<3170, 3171>>, <<3201, 3201>>, <<3260, 3260>>, <<3263, 3263>>,
    <<3270, 3270>>, <<3276, 3277>>, <<3298, 3299>>, <<3328, 3329>>, <<3387, 3388>>,
    <<3393, 3396>>, <<3405, 3405>>, <<3426, 3427>>, <<3457, 3457>>, <<3530, 3530>>,
    <<3538, 3540>>, <<3542, 3542>>, <<3633, 3633>>, <<3636, 3642>>, <<3654, 3662>>,
    <<3761, 3761>>, <<3764, 3772>>, <<3782, 3782>>, <<3784, 3789>>, <<3864, 3865>>,
    <<3893, 3893>>, <<3895, 3895>>, <<3897, 3897>>, <<3953, 3966>>, <<3968, 3972>>,
    <<3974, 3975>>, <<3981, 3991>>, <<3993, 4028>>, <<4038, 4038>>, <<4141, 4144>>,
    <<4146, 4151>>, <<4153, 4154>>, <<4157, 4158>>, <<4184, 4185>>, <<4190, 4192>>,
    <<4209, 4212>>, <<4226, 4226>>, <<4229, 4230>>, <<4237, 4237>>, <<4253, 4253>>,
    <<4348, 4348>>, <<4957, 4959>>, <<5906, 5908>>, <<5938, 5939>>, <<5970, 5971>>,
    <<6002, 6003>>, <<6068, 6069>>, <<6071, 6077>>, <<6086, 6086>>, <<6089, 6099>>,
    <<6103, 6103>>, <<6109, 6109>>, <<6155, 6159>>, <<6211, 6211>>, <<6277, 6278>>,
    <<6313, 6313>>, <<6432, 6434>>, <<6439, 6440>>, <<6450, 6450>>, <<6457, 6459>>,
    <<6679, 6680>>, <<6683, 6683>>, <<6742, 6742>>, <<6744, 6750>>, <<6752, 6752>>,
    <<6754, 6754>>, <<6757, 6764>>, <<6771, 6780>>, <<6783, 6783>>, <<6823, 6823>>,
    <<6832, 6862>>, <<6912, 6915>>, <<6964, 6964>>, <<6966, 6970>>, <<6972, 6972>>,
    <<6978, 6978>>, <<7019, 7027>>, <<7040, 7041>>, <<7074, 7077>>, <<7080, 7081>>,
    <<7083, 7085>>, <<7142, 7142>>, <<7144, 7145>>, <<7149, 7149>>, <<7151, 7153>>,
    <<7212, 7219>>, <<7222, 7223>>, <<7288, 7293>>, <<7376, 7378>>, <<7380, 7392>>,
    <<7394, 7400>>, <<7405, 7405>>, <<7412, 7412>>, <<7416, 7417>>, <<7468, 7530>>,
    <<7544, 7544>>, <<7579, 7679>>, <<8125, 8125>>, <<8127, 8129>>, <<8141, 8143>>,
    <<8157, 8159>>, <<8173, 8175>>, <<8189, 8190>>, <<8203, 8207>>, <<8216, 8217>>,
    <<8228, 8228>>, <<8231, 8231>>, <<8234, 8238>>, <<8288, 8292>>, <<8294, 8303>>,
    <<8305, 8305>>, <<8319, 8319>>, <<8336, 8348>>, <<8400, 8432>>, <<11388, 11389>>,
    <<11503, 11505>>, <<11631, 11631>>, <<11647, 11647>>, <<11744, 11775>>, <<11823, 11823>>,
    <<12293, 12293>>, <<12330, 12333>>, <<12337, 12341>>, <<12347, 12347>>, <<12441, 12446>>,
    <<12540, 12542>>, <<40981, 40981>>, <<42232, 42237>>, <<42508, 42508>>, <<42607, 42610>>,
    <<42612, 42621>>, <<42623, 42623>>, <<42652, 42655>>, <<42736, 42737>>, <<42752, 42785>>,
    <<42864, 42864>>, <<42888, 42890>>, <<42994, 42996>>, <<43000, 43001>>, <<43010, 43010>>,
    <<43014, 43014>>, <<43019, 43019>>, <<43045, 43046>>, <<43052, 43052>>, <<43204, 43205>>,
    <<43232, 43249>>, <<43263, 43263>>, <<43302, 43309>>, <<43335, 43345>>, <<43392, 43394>>,
    <<43443, 43443>>, <<43446, 43449>>, <<43452, 43453>>, <<43471, 43471>>, <<43493, 43494>>,
    <<43561, 43566>>, <<43569, 43570>>, <<43573, 43574>>, <<43587, 43587>>, <<43596, 43596>>,
    <<43632, 43632>>, <<43644, 43644>>, <<43696, 43696>>, <<43698, 43700>>, <<43703, 43704>>,
    <<43710, 43711>>, <<43713, 43713>>, <<43741, 43741>>, <<43756, 43757>>, <<43763, 43764>>,
    <<43766, 43766>>, <<43867, 43871>>, <<43881, 43883>>, <<44005, 44005>>, <<44008, 44008>>,
    <<44013, 44013>>, <<64286, 64286>>, <<64434, 64450>>, <<65024, 65039>>, <<65043, 65043>>,
    <<65056, 65071>>, <<65106, 65106>>, <<65109, 65109>>, <<65279, 65279>>, <<65287, 65287>>,
    <<65294, 65294>>, <<65306, 65306>>, <<65342, 65342>>, <<65344, 65344>>, <<65392, 65392>>,
    <<65438, 65439>>, <<65507, 65507>>, <<65529, 65531>>, <<66045, 66045>>, <<66272, 66272>>,
    <<66422, 66426>>, <<67456, 67461>>, <<67463, 67504>>, <<67506, 67514>>, <<68097, 68099>>,
    <<68101, 68102>>, <<68108, 68111>>, <<68152, 68154>>, <<68159, 68159>>, <<68325, 68326>>,
    <<68900, 68903>>, <<69291, 69292>>, <<69446, 69456>>, <<69506, 69509>>, <<69633, 69633>>,
    <<69688, 69702>>, <<69744, 69744>>, <<69747, 69748>>, <<69759, 69761>>, <<69811, 69814>>,
    <<69817, 69818>>, <<69821, 69821>>, <<69826, 69826>>, <<69837, 69837>>, <<69888, 69890>>,
    <<69927, 69931>>, <<69933, 69940>>, <<70003, 70003>>, <<70016, 70017>>, <<70070, 70078>>,
    <<70089, 70092>>, <<70095, 70095>>, <<70191, 70193>>, <<70196, 70196>>, <<70198, 70199>>,
    <<70206, 70206>>, <<70367, 70367>>, <<70371, 70378>>, <<70400, 70401>>, <<70459, 70460>>,
    <<70464, 70464>>, <<70502, 70508>>, <<70512, 70516>>, <<70712, 70719>>, <<70722, 70724>>,
    <<70726, 70726>>, <<70750, 70750>>, <<70835, 70840>>, <<70842, 70842>>, <<70847, 70848>>,
    <<70850, 70851>>, <<71090, 71093>>, <<71100, 71101>>, <<71103, 71104>>, <<71132, 71133>>,
    <<71219, 71226>>, <<71229, 71229>>, <<71231, 71232>>, <<71339, 71339>>, <<71341, 71341>>,
    <<71344, 71349>>, <<71351, 71351>>, <<71453, 71455>>, <<71458, 71461>>, <<71463, 71467>>,
    <<71727, 71735>>, <<71737, 71738>>, <<71995, 71996>>, <<71998, 71998>>, <<72003, 72003>>,
    <<72148, 72151>>, <<72154, 72155>>, <<72160, 72160>>, <<72193, 72202>>, <<72243, 72248>>,
    <<72251, 72254>>, <<72263, 72263>>, <<72273, 72278>>, <<72281, 72283>>, <<72330, 72342>>,
    <<72344, 72345>>, <<72752, 72758>>, <<72760, 72765>>, <<72767, 72767>>, <<72850, 72871>>,
    <<72874, 72880>>, <<72882, 72883>>, <<72885, 72886>>, <<73009, 73014>>, <<73018, 73018>>,
    <<73020, 73021>>, <<73023, 73029>>, <<73031, 73031>>, <<73104, 73105>>, <<73109, 73109>>,
    <<73111, 73111>>, <<73459, 73460>>, <<78896, 78904>>, <<92912, 92916>>, <<92976, 92982>>,
    <<92992, 92995>>, <<94031, 94031>>, <<94095, 94111>>, <<94176, 94177>>, <<94179, 94180>>,
    <<110576, 110579>>, <<110581, 110587>>, <<110589, 110590>>, <<113821, 113822>>, <<113824, 113827>>,
    <<118528, 118573>>, <<118576, 118598>>, <<119143, 119145>>, <<119155, 119170>>, <<119173, 119179>>,
    <<119210, 119213>>, <<119362, 119364>>, <<121344, 121398>>, <<121403, 121452>>, <<121461, 121461>>,
    <<121476, 121476>>, <<121499, 121503>>, <<121505, 121519>>, <<122880, 122886>>, <<122888, 122904>>,
    <<122907, 122913>>, <<122915, 122916>>, <<122918, 122922>>, <<123184, 123197>>, <<123566, 123566>>,
    <<123628, 123631>>, <<125136, 125142>>, <<125252, 125259>>, <<127995, 127999>>, <<917505, 917505>>,
    <<917536, 917631>>, <<917760, 917999>> >>

Cased == CharsOf(CasedRanges)
CaseIgnorable == CharsOf(CaseIgnorableRanges)

\* <<c, c.lower()>> for every character that lower() changes; U+0130 is the
\* one character whose lower case is two characters.
LowerPairs ==
    {p : p \in UNION {{<<Chr(n), <<Chr(n + LowerRanges[k][4])>>>> :
                          n \in {m \in LowerRanges[k][1]..LowerRanges[k][2] :
                                    (m - LowerRanges[k][1]) % LowerRanges[k][3] = 0}} :
                      k \in 1..Len(LowerRanges)}}
    \cup {<<"U+0130", <<"i", "U+0307">>>>}

Uppers == {p[1] : p \in LowerPairs}

\* c.lower() of a character outside of any context
LowerChar(c) ==
    IF c \in Uppers THEN (CHOOSE p \in LowerPairs : p[1] = c)[2] ELSE <<c>>

CapitalSigma == "U+03A3"
SmallSigma == "U+03C3"
FinalSigma == "U+03C2"

\* The capital sigma s[k] is lowered to a final sigma when the nearest
\* character before it that is not case-ignorable is cased, and there is
\* no character after it that is not case-ignorable, or the nearest one is
\* not cased.
IsFinalSigma(s, k) ==
    LET before == {j \in 1..(k - 1) : s[j] \notin CaseIgnorable}
        after == {j \in (k + 1)..Len(s) : s[j] \notin CaseIgnorable}
    IN  /\ before # {}
        /\ s[CHOOSE j \in before : \A j2 \in before : j2 <= j] \in Cased
        /\ \/ after = {}
           \/ s[CHOOSE j \in after : \A j2 \in after : j <= j2] \notin Cased

RECURSIVE LowerFrom(_, _)
LowerFrom(s, k) ==
    IF k > Len(s) THEN <<>>
    ELSE (IF s[k] = CapitalSigma
          THEN <<IF IsFinalSigma(s, k) THEN FinalSigma ELSE SmallSigma>>
          ELSE LowerChar(s[k])) \o LowerFrom(s, k + 1)

\* str.lower()
Lower(s) == LowerFrom(s, 1)

\* bool(v) of a str-or-None value
Truthy(v) == v # None /\ v # <<>>

Ellipsis == <<".", ".", ".">>

-----------------------------------------------------------------------------
(* is_valid_image_url *)

blocked == <<
    <<"l", "o", "g", "o">>,
    <<"a", "d", ".">>,
    <<"b", "a", "n", "n", "e", "r">>,
    <<"s", "p", "o", "n", "s", "o", "r">>,
    <<"d", "o", "u", "b", "l", "e", "c", "l", "i", "c", "k">>,
    <<"p", "l", "a", "c", "e", "h", "o", "l", "d", "e", "r">>,
    <<"i", "c", "o", "n">>,
    <<"g", "i", "f">> >>

\* The outcome of is_valid_image_url(url): url.lower() raises AttributeError
\* on None; otherwise all(word not in url_lower for word in blocked).
is_valid_image_url(url) ==
    IF url = None
    THEN [raised |-> TRUE, value |-> FALSE]
    ELSE [raised |-> FALSE,
          value  |-> \A w \in 1..Len(blocked) : ~Contains(Lower(url), blocked[w])]

-----------------------------------------------------------------------------
(* fetch_content_with_retry *)

retries == 3
delay == 1
SnippetLimit == 500

Photo == <<"h", "t", "t", "p", "s", ":", "/", "/", "c", "d", "n", ".", "s", "i",
           "t", "e", ".", "c", "o", "m", "/", "p", "h", "o", "t", "o", "1", "2",
           "3", ".", "j", "p", "g">>
Logo == <<"h", "t", "t", "p", "s", ":", "/", "/", "c", "d", "n", ".", "s", "i",
          "t", "e", ".", "c", "o", "m", "/", "l", "o", "g", "o", "-", "s", "m",
          "a", "l", "l", ".", "p", "n", "g">>
BodyText == <<"B", "o", "d", "y", " ", "t", "e", "x", "t">>

\* What soup.find returns: no tag, or a <p> with its strings (the text
\* nodes under it, in document order), or an <img> that has a src attribute
\* with the values img.get gives for src, data-src and data-lazy-src.
NoP == [found |-> FALSE, strings |-> <<>>]
Paragraph(strings) == [found |-> TRUE, strings |-> strings]
NoImg == [found |-> FALSE, src |-> None, data_src |-> None, data_lazy_src |-> None]
Img(src, data_src, data_lazy_src) ==
    [found |-> TRUE, src |-> src, data_src |-> data_src,
     data_lazy_src |-> data_lazy_src]

\* class_ of soup.find_all for the snippet (lines 83-86) and for the image
\* (lines 112-115)
SnippetContainerClasses ==
    {"article-body", "content-body", "story-content", "main-content",
     "entry-content", "post-content", "article__body"}
ImageContainerClasses ==
    {"article-body", "content-body", "story-content", "main-content",
     "entry-content", "post-content"}

\* An <article> or <div> of the page: its class, container.find('p') and
\* container.find('img', src=True).
Container(class, p, img) == [class |-> class, p |-> p, img |-> img]

\* What BeautifulSoup finds in a fetched page: its <article> and <div>
\* elements in document order, soup.find('p'), the content of the og:image
\* and twitter:image meta tags (None without the tag or the attribute), and
\* soup.find('img', src=True).
NoPage == [containers |-> <<>>, first_p |-> NoP, og |-> None, tw |-> None,
           first_img |-> NoImg]
\* an article page: a logo in the header, text and a photo in the body
PageArticle ==
    [containers |-> <<Container("article-body",
                                Paragraph(<<<<" ">>, BodyText, <<"\r", "\n">>>>),
                                Img(Photo, None, None))>>,
     first_p |-> Paragraph(<<<<" ">>, BodyText, <<"\r", "\n">>>>),
     og |-> Photo, tw |-> None,
     first_img |-> Img(Logo, None, None)]
\* no container; og:image is a logo, twitter:image a photo
PageTwitter ==
    [containers |-> <<>>,
     first_p |-> Paragraph(<<<<"\n", " ">> \o BodyText \o <<" ", "\n">>>>),
     og |-> Logo, tw |-> Photo,
     first_img |-> Img(Logo, None, None)]
\* nothing usable: a paragraph of white space, an empty og:image, logos
PageBare ==
    [containers |-> <<Container("article-body", NoP, Img(Logo, None, None))>>,
     first_p |-> Paragraph(<<<<"\r">>>>),
     og |-> <<>>, tw |-> None,
     first_img |-> Img(Logo, None, None)]
\* the first container has a blank paragraph and a logo, the second one the
\* text and a photo in data-src (its src is empty)
PageTwoContainers ==
    [containers |-> <<Container("article-body", Paragraph(<<<<" ">>>>),
                                Img(Logo, None, None)),
                      Container("content-body", Paragraph(<<BodyText>>),
                                Img(<<>>, Photo, None))>>,
     first_p |-> Paragraph(<<<<" ">>>>),
     og |-> None, tw |-> <<>>,
     first_img |-> Img(Logo, None, None)]
\* the only container is one of the snippet list only; the first image of
\* the page has its photo in data-src
PageSnippetClass ==
    [containers |-> <<Container("article__body", Paragraph(<<BodyText>>),
                                Img(Logo, None, None))>>,
     first_p |-> Paragraph(<<BodyText>>),
     og |-> None, tw |-> None,
     first_img |-> Img(<<>>, Photo, None)]
\* photos in data-lazy-src: read for a container image, not for the first
\* image of the page
PageLazy ==
    [containers |-> <<Container("sidebar", Paragraph(<<BodyText>>), NoImg),
                      Container("post-content", NoP, Img(<<>>, <<>>, Photo))>>,
     first_p |-> Paragraph(<<BodyText>>),
     og |-> None, tw |-> None,
     first_img |-> Img(<<>>, <<>>, Photo)]
PageLazyOutside ==
    [containers |-> <<Container("sidebar", NoP, Img(<<>>, None, Photo))>>,
     first_p |-> NoP,
     og |-> None, tw |-> None,
     first_img |-> Img(<<>>, None, Photo)]
Pages == {PageArticle, PageTwitter, PageBare, PageTwoContainers,
          PageSnippetClass, PageLazy, PageLazyOutside}

\* The outcome of one requests.get + raise_for_status: exc is the exception
\* raised ("none" for a 2xx answer), status the HTTP status of the response
\* the exception carries (0 when it carries none).  "Exception" is an
\* exception that is not a RequestException (line 138).
Outcomes ==
    [exc : {"none"}, status : {200}, page : Pages]
    \cup [exc : {"HTTPError"}, status : {403, 404, 500}, page : {NoPage}]
    \cup [exc : {"Timeout", "ConnectionError", "Exception"}, status : {0},
          page : {NoPage}]

\* bool(e.response): None is false, and requests.Response.__bool__ is
\* Response.ok, which is false for every 4xx and 5xx status.
ResponseBool(status) == status # 0 /\ status < 400

\* line 135: e.response and e.response.status_code in (403, 404)
IsTerminalError(o) == ResponseBool(o.status) /\ o.status \in {403, 404}

\* p.get_text(strip=True): the strings of the tag, each stripped, joined
RECURSIVE GetTextStrip(_)
GetTextStrip(strings) ==
    IF strings = <<>> THEN <<>>
    ELSE Strip(Head(strings)) \o GetTextStrip(Tail(strings))

\* p.get_text(strip=True)[:500] + "..."
SnippetOf(p) == Take(GetTextStrip(p.strings), SnippetLimit) \o Ellipsis

\* p and p.get_text(strip=True)
HasText(p) == p.found /\ Truthy(GetTextStrip(p.strings))

IsSnippetContainer(c) == c.class \in SnippetContainerClasses
IsImageContainer(c) == c.class \in ImageContainerClasses

\* lines 87-90: the loop over the containers
RECURSIVE FirstContainerSnippet(_)
FirstContainerSnippet(containers) ==
    IF containers = <<>> THEN None
    ELSE IF HasText(Head(containers).p) THEN SnippetOf(Head(containers).p)
    ELSE FirstContainerSnippet(Tail(containers))

\* the "snippet" branch, lines 81-94 and 130
ExtractSnippet(page) ==
    IF FirstContainerSnippet(SelectSeq(page.containers, IsSnippetContainer)) # None
    THEN FirstContainerSnippet(SelectSeq(page.containers, IsSnippetContainer))
    ELSE IF HasText(page.first_p) THEN SnippetOf(page.first_p)
    ELSE None

\* a or b
Or(a, b) == IF Truthy(a) THEN a ELSE b

\* line 119: img.get('src') or img.get('data-src') or img.get('data-lazy-src')
ContainerSrc(img) == Or(Or(img.src, img.data_src), img.data_lazy_src)

\* line 126: img.get('src') or img.get('data-src')
PageSrc(img) == Or(img.src, img.data_src)

\* src and is_valid_image_url(src)
ValidCandidate(src) == Truthy(src) /\ is_valid_image_url(src).value

\* lines 116-121: the loop over the containers
RECURSIVE FirstContainerImage(_)
FirstContainerImage(containers) ==
    IF containers = <<>> THEN None
    ELSE IF /\ Head(containers).img.found
            /\ ValidCandidate(ContainerSrc(Head(containers).img))
    THEN ContainerSrc(Head(containers).img)
    ELSE FirstContainerImage(Tail(containers))

\* the "image" branch, lines 96-130
ExtractImage(page) ==
    IF ValidCandidate(page.og) THEN page.og
    ELSE IF ValidCandidate(page.tw) THEN page.tw
    ELSE IF FirstContainerImage(SelectSeq(page.containers, IsImageContainer)) # None
    THEN FirstContainerImage(SelectSeq(page.containers, IsImageContainer))
    ELSE IF page.first_img.found /\ ValidCandidate(PageSrc(page.first_img))
    THEN PageSrc(page.first_img)
    ELSE None

Extract(kind, page) ==
    IF kind = "snippet" THEN ExtractSnippet(page) ELSE ExtractImage(page)

\* Mutant: the sleep does not grow with the attempt number.
Backoff_Constant(k) == delay

\* time.sleep(delay * (i + 1))
Backoff(k) == delay * (k + 1)

\* One iteration of the loop, lines 76-139, on a GET with outcome o: either
\* the function returns value, or it sleeps and the loop goes on.
Attempt(kind, k, o) ==
    IF o.exc = "none"
    THEN [returns |-> TRUE, value |-> Extract(kind, o.page), sleep |-> 0]
    ELSE IF o.exc # "Timeout" /\ IsTerminalError(o)
    THEN [returns |-> TRUE, value |-> None, sleep |-> 0]
    ELSE [returns |-> FALSE, value |-> None, sleep |-> Backoff(k)]

\* The whole call, from iteration k on, when the GET of iteration j has
\* outcome outs[j + 1]: the value returned and the number of GETs issued.
RECURSIVE FetchFrom(_, _, _)
FetchFrom(kind, outs, k) ==
    IF k >= retries
    THEN [value |-> None, gets |-> k]
    ELSE IF Attempt(kind, k, outs[k + 1]).returns
    THEN [value |-> Attempt(kind, k, outs[k + 1]).value, gets |-> k + 1]
    ELSE FetchFrom(kind, outs, k + 1)

fetch_content_with_retry(kind, outs) == FetchFrom(kind, outs, 0)

AllTimeouts(outs) == \A k \in 1..retries : outs[k].exc = "Timeout"

OutcomeSeqs == [1..retries -> Outcomes]

\* What a call can come to, over every sequence of GET outcomes: the value
\* returned, the number of GETs, and whether every attempt timed out.
CallOf(kind, outs) ==
    [value |-> fetch_content_with_retry(kind, outs).value,
     gets |-> fetch_content_with_retry(kind, outs).gets,
     timeouts |-> AllTimeouts(outs)]

\* Two outcomes that every iteration of the loop treats alike, for a kind.
SameAttempt(kind, o1, o2) ==
    /\ \A k \in 0..(retries - 1) : Attempt(kind, k, o1) = Attempt(kind, k, o2)
    /\ (o1.exc = "Timeout") <=> (o2.exc = "Timeout")

\* One outcome of each such class: CallOf takes the same value on two
\* sequences whose outcomes are alike position by position.
DistinctOutcomes(kind) ==
    {o \in Outcomes : o = CHOOSE o2 \in Outcomes : SameAttempt(kind, o, o2)}

SnippetCalls ==
    {CallOf("snippet", outs) : outs \in [1..retries -> DistinctOutcomes("snippet")]}
ImageCalls ==
    {CallOf("image", outs) : outs \in [1..retries -> DistinctOutcomes("image")]}

\* fetch_content_with_retry run on its own: the loop header issues a GET
\* (GetStart, lines 75-77), the GET ends with an outcome that the iteration
\* handles up to its return or its call of time.sleep (FetchAttempt, lines
\* 77-139), and time.sleep returns (SleepEnd).
FetchInit ==
    /\ pc = "fetch"
    /\ fetch_type \in {"snippet", "image"}
    /\ i = 0
    /\ trace = <<>>
    /\ sleeps = <<>>
    /\ result = None

\* lines 75-77: range(retries) gives the next i and requests.get is called
GetStart ==
    /\ pc = "fetch"
    /\ i < retries
    /\ pc' = "get"
    /\ UNCHANGED <<fetch_type, i, trace, sleeps, result>>

\* lines 77-139: requests.get returns or raises, and the iteration returns
\* a value or calls time.sleep (lines 133, 137, 139).
FetchAttempt(o) ==
    /\ pc = "get"
    /\ trace' = Append(trace, o)
    /\ IF Attempt(fetch_type, i, o).returns
       THEN /\ result' = Attempt(fetch_type, i, o).value
            /\ pc' = "returned"
            /\ UNCHANGED sleeps
       ELSE /\ sleeps' = Append(sleeps, Attempt(fetch_type, i, o).sleep)
            /\ result' = None
            /\ pc' = "sleep"
    /\ UNCHANGED <<fetch_type, i>>

\* time.sleep returns: the loop goes on to the next i, and after the last
\* one line 141 returns None.
SleepEnd ==
    /\ pc = "sleep"
    /\ i' = i + 1
    /\ pc' = IF i + 1 < retries THEN "fetch" ELSE "returned"
    /\ UNCHANGED <<fetch_type, trace, sleeps, result>>

-----------------------------------------------------------------------------
(* enrich_articles_with_scraping *)

Urls == {<<"u", "1">>, <<"u", "2">>}
\* row['url']: a string, or None when the file has no url column (lines
\* 166-168); an empty cell is NaN, which the code treats as it treats None
\* (not a key of a cache, not a member of a failed set, not subscriptable).
RowUrls == Urls \cup {None}
Kinds == {"snippet", "image"}
Headlines == {None, <<"H", "i">>}
Texts == {None, <<" ", "\r", "U+3000">>, <<"O", "l", "d">>}
Images == {None, <<"o", ".", "j", "p", "g">>}
HeadlineLimit == 250

Rows == [url : RowUrls, headline : Headlines, text : Texts, urlToImage : Images]
\* URLs are opaque keys: the first URL of a batch is named u1.
Batches ==
    {b \in UNION {[1..n -> Rows] : n \in 1..MaxRows} :
        \A k \in 1..Len(b) :
            b[k].url = <<"u", "2">> =>
                \E j \in 1..(k - 1) : b[j].url = <<"u", "1">>}

NoRun == <<>>
NoCalls == [c \in Urls \X Kinds |-> 0]
NoCache == [u \in {} |-> None]

\* pd.isna(v) or not str(v).strip()
IsMissing(v) == v = None \/ ~Truthy(Strip(v))

needs_text(row) == IsMissing(row.text)
needs_image(row) == IsMissing(row.urlToImage)

\* url not in scraped_text and url not in failed_snippets (lines 217, 238)
TextOutstanding(url) == url \notin DOMAIN scraped_text /\ url \notin failed_snippets

\* Mutant: the failed set is not consulted, a failed image is fetched again.
ImageOutstanding_IgnoresFailed(url) == url \notin DOMAIN scraped_image

\* url not in scraped_image and url not in failed_images (lines 218, 249)
ImageOutstanding(url) == url \notin DOMAIN scraped_image /\ url \notin failed_images

NeedsFetch(row) ==
    \/ needs_text(row) /\ TextOutstanding(row.url)
    \/ needs_image(row) /\ ImageOutstanding(row.url)

\* lines 211-219: one entry per row that still needs processing
UrlsToFetch(d) ==
    LET kept == SelectSeq(d, NeedsFetch)
    IN  [k \in 1..Len(kept) |-> kept[k].url]

\* df['url'].map(cache).fillna(column)
MapText(d, cache) ==
    [k \in 1..Len(d) |->
        [d[k] EXCEPT !.text =
            IF d[k].url \in DOMAIN cache THEN cache[d[k].url] ELSE d[k].text]]

MapImage(d, cache) ==
    [k \in 1..Len(d) |->
        [d[k] EXCEPT !.urlToImage =
            IF d[k].url \in DOMAIN cache THEN cache[d[k].url] ELSE d[k].urlToImage]]

\* lines 223-224 and 264-265
ApplyCache(d, texts, images) == MapImage(MapText(d, texts), images)

\* df[df['url'] == url]['headline'].iloc[0]
FirstHeadline(d, url) == d[CHOOSE k \in 1..Len(d) :
                              /\ d[k].url = url
                              /\ \A j \in 1..(k - 1) : d[j].url # url].headline

\* headline[:250] + "..."
HeadlineFallback(headline) == Take(headline, HeadlineLimit) \o Ellipsis

Put(cache, url, v) ==
    [u \in DOMAIN cache \cup {url} |-> IF u = url THEN v ELSE cache[u]]

CurUrl == urls_to_fetch[pos]

\* line 235, status_text.text(f"... {url[:60]}..."): url[:60] raises
\* TypeError when url is None (or NaN); otherwise the body of the loop
\* goes on to the snippet.
LoopBody(url) == IF url = None THEN "raised" ELSE "snippet"

Idle == pc \in {"idle", "done", "raised"}

\* The four cache objects of st.session_state.scraped_data (lines 205-208)
Cache == <<scraped_text, scraped_image, failed_snippets, failed_images>>

EnrichInit ==
    /\ raw \in Batches
    /\ df = raw
    /\ pc = "idle"
    /\ scraped_text = NoCache
    /\ scraped_image = NoCache
    /\ failed_snippets = {}
    /\ failed_images = {}
    /\ urls_to_fetch = <<>>
    /\ pos = 0
    /\ calls = NoCalls
    /\ timedOut = {}
    /\ stale = <<>>
    /\ prev = [df |-> NoRun, left |-> NoRun]

\* Where a run that is told to stop goes on to: it executes the rest of its
\* iteration without a pause up to the next call of fetch_content_with_retry,
\* in which it waits, or up to the st.* call of line 257, where it stops.
\* "gone" is a run that stopped.
StaleFrom(at, url) ==
    IF at \in {"snippet_fetch", "image_fetch"} THEN at
    ELSE IF at = "snippet" /\ TextOutstanding(url) THEN "snippet_fetch"
    ELSE IF ImageOutstanding(url) THEN "image_fetch"
    ELSE "gone"

\* A script run calls enrich on a copy of the raw rows: lines 197-219.  When
\* the run before it is still in its loop, Streamlit has told that run to
\* stop and started this one beside it: the earlier run goes on, on the same
\* st.session_state, up to its next st.* call (line 257), see the Stale
\* steps.
Begin ==
    /\ Idle \/ Len(stale) < MaxStale
    /\ stale' = IF Idle \/ StaleFrom(pc, CurUrl) = "gone" THEN stale
                ELSE Append(stale, [pc |-> StaleFrom(pc, CurUrl), url |-> CurUrl])
    /\ calls' = NoCalls
    /\ urls_to_fetch' = UrlsToFetch(raw)
    /\ UNCHANGED <<raw, scraped_text, scraped_image, failed_snippets,
                   failed_images, timedOut>>

\* What the invocation before this one returned, when it completed and the
\* cache is still as it left it
Before == IF pc = "done" /\ prev.left = Cache THEN df ELSE NoRun

\* lines 221-225: nothing to fetch, the cached values are applied.
EnrichCached ==
    /\ Begin
    /\ UrlsToFetch(raw) = <<>>
    /\ df' = ApplyCache(raw, scraped_text, scraped_image)
    /\ pos' = 0
    /\ pc' = "done"
    /\ prev' = [df |-> Before, left |-> Cache]

\* lines 227-235: the loop over the worklist starts with its first entry.
EnrichStart ==
    /\ Begin
    /\ UrlsToFetch(raw) # <<>>
    /\ df' = raw
    /\ pos' = 1
    /\ pc' = LoopBody(UrlsToFetch(raw)[1])
    /\ prev' = [df |-> Before, left |-> prev.left]

\* lines 240-246 for the value the snippet call returned: the snippet is
\* stored, or the URL is marked failed and the headline of its first row is
\* the fallback.  The rows of a worklist URL are never empty, so "No
\* snippet." is never stored; a headline of None raises TypeError at
\* None[:250], after the URL was added to failed_snippets.
SnippetStore(url, snippet) ==
    LET headline == FirstHeadline(raw, url)
    IN  IF Truthy(snippet)
        THEN [text |-> Put(scraped_text, url, snippet),
              failed |-> failed_snippets, raised |-> FALSE]
        ELSE IF headline = None
        THEN [text |-> scraped_text,
              failed |-> failed_snippets \cup {url}, raised |-> TRUE]
        ELSE [text |-> Put(scraped_text, url, HeadlineFallback(headline)),
              failed |-> failed_snippets \cup {url}, raised |-> FALSE]

\* lines 251-254 for the value the image call returned
ImageStore(url, image) ==
    IF Truthy(image)
    THEN [image |-> Put(scraped_image, url, image), failed |-> failed_images]
    ELSE [image |-> scraped_image, failed |-> failed_images \cup {url}]

TimedOut(url, kind, call) ==
    IF call.timeouts THEN timedOut \cup {<<url, kind>>} ELSE timedOut

\* lines 238-239, condition of line 238 true: fetch_content_with_retry is
\* called for the snippet, and the run waits in it.
SnippetBegin ==
    /\ pc = "snippet"
    /\ TextOutstanding(CurUrl)
    /\ calls' = [calls EXCEPT ![<<CurUrl, "snippet">>] = @ + 1]
    /\ pc' = "snippet_fetch"
    /\ UNCHANGED <<raw, df, scraped_text, scraped_image, failed_snippets,
                   failed_images, urls_to_fetch, pos, timedOut, stale, prev>>

\* lines 239-246: the call returns and its value is stored.
SnippetEnd(call) ==
    /\ pc = "snippet_fetch"
    /\ scraped_text' = SnippetStore(CurUrl, call.value).text
    /\ failed_snippets' = SnippetStore(CurUrl, call.value).failed
    /\ pc' = IF SnippetStore(CurUrl, call.value).raised THEN "raised" ELSE "image"
    /\ timedOut' = TimedOut(CurUrl, "snippet", call)
    /\ UNCHANGED <<raw, df, scraped_image, failed_images, urls_to_fetch, pos,
                   calls, stale, prev>>

\* line 238, condition false
SnippetSkip ==
    /\ pc = "snippet"
    /\ ~TextOutstanding(CurUrl)
    /\ pc' = "image"
    /\ UNCHANGED <<raw, df, scraped_text, scraped_image, failed_snippets,
                   failed_images, urls_to_fetch, pos, calls, timedOut, stale,
                   prev>>

\* lines 256-257, the loop header and line 235: the next worklist entry;
\* after the last one, lines 259-276: the cache is applied to the
\* DataFrame, which is returned.
Advance(texts, images, snippets_failed, images_failed) ==
    IF pos < Len(urls_to_fetch)
    THEN /\ pos' = pos + 1
         /\ pc' = LoopBody(urls_to_fetch[pos + 1])
         /\ UNCHANGED <<df, prev>>
    ELSE /\ pos' = pos
         /\ pc' = "done"
         /\ df' = ApplyCache(df, texts, images)
         /\ prev' = [prev EXCEPT
                        !.left = <<texts, images, snippets_failed, images_failed>>]

\* lines 249-250, condition of line 249 true: fetch_content_with_retry is
\* called for the image, and the run waits in it.
ImageBegin ==
    /\ pc = "image"
    /\ ImageOutstanding(CurUrl)
    /\ calls' = [calls EXCEPT ![<<CurUrl, "image">>] = @ + 1]
    /\ pc' = "image_fetch"
    /\ UNCHANGED <<raw, df, scraped_text, scraped_image, failed_snippets,
                   failed_images, urls_to_fetch, pos, timedOut, stale, prev>>

\* lines 250-257: the call returns, its value is stored, or the URL is
\* marked failed.
ImageEnd(call) ==
    /\ pc = "image_fetch"
    /\ scraped_image' = ImageStore(CurUrl, call.value).image
    /\ failed_images' = ImageStore(CurUrl, call.value).failed
    /\ timedOut' = TimedOut(CurUrl, "image", call)
    /\ Advance(scraped_text, scraped_image', failed_snippets, failed_images')
    /\ UNCHANGED <<raw, scraped_text, failed_snippets, urls_to_fetch, calls,
                   stale>>

\* line 249, condition false
ImageSkip ==
    /\ pc = "image"
    /\ ~ImageOutstanding(CurUrl)
    /\ Advance(scraped_text, scraped_image, failed_snippets, failed_images)
    /\ UNCHANGED <<raw, scraped_text, scraped_image, failed_snippets,
                   failed_images, urls_to_fetch, calls, timedOut, stale>>

\* An earlier script run that was told to stop and waits in a fetch call:
\* it executes the rest of its iteration of the loop, lines 239-254, on the
\* shared cache, and stops at the st.* call of line 257 (or dies of the
\* TypeError of line 245).
Remove(q, k) == SubSeq(q, 1, k - 1) \o SubSeq(q, k + 1, Len(q))

\* lines 239-249 in an earlier run: the snippet call returns, its value is
\* stored, and the run goes on to the image
StaleSnippetEnd(k, call) ==
    /\ stale[k].pc = "snippet_fetch"
    /\ scraped_text' = SnippetStore(stale[k].url, call.value).text
    /\ failed_snippets' = SnippetStore(stale[k].url, call.value).failed
    /\ stale' = IF \/ SnippetStore(stale[k].url, call.value).raised
                   \/ StaleFrom("image", stale[k].url) = "gone"
                THEN Remove(stale, k)
                ELSE [stale EXCEPT ![k].pc = "image_fetch"]
    /\ timedOut' = TimedOut(stale[k].url, "snippet", call)
    /\ UNCHANGED <<raw, df, pc, urls_to_fetch, pos, calls, prev,
                   scraped_image, failed_images>>

\* lines 250-257 in an earlier run: the image call returns, its value is
\* stored or the URL is marked failed, and the run stops
StaleImageEnd(k, call) ==
    /\ stale[k].pc = "image_fetch"
    /\ scraped_image' = ImageStore(stale[k].url, call.value).image
    /\ failed_images' = ImageStore(stale[k].url, call.value).failed
    /\ stale' = Remove(stale, k)
    /\ timedOut' = TimedOut(stale[k].url, "image", call)
    /\ UNCHANGED <<raw, df, pc, urls_to_fetch, pos, calls, prev,
                   scraped_text, failed_snippets>>

fetchVars == <<fetch_type, i, trace, sleeps, result>>

Init ==
    /\ EnrichInit
    /\ fetch_type = "none"
    /\ i = 0
    /\ trace = <<>>
    /\ sleeps = <<>>
    /\ result = None
    /\ scorer = <<>>
    /\ validator = <<>>

\* The calls without the note of whether every attempt timed out, which
\* only timedOut records
SnippetReturns == {[call EXCEPT !.timeouts = FALSE] : call \in SnippetCalls}
ImageReturns == {[call EXCEPT !.timeouts = FALSE] : call \in ImageCalls}

\* The script runs of a session, overlapping ones included
Next ==
    \/ EnrichCached /\ UNCHANGED <<fetchVars, scorer, validator>>
    \/ EnrichStart /\ UNCHANGED <<fetchVars, scorer, validator>>
    \/ SnippetBegin /\ UNCHANGED <<fetchVars, scorer, validator>>
    \/ (\E call \in SnippetReturns : SnippetEnd(call))
          /\ UNCHANGED <<fetchVars, scorer, validator>>
    \/ SnippetSkip /\ UNCHANGED <<fetchVars, scorer, validator>>
    \/ ImageBegin /\ UNCHANGED <<fetchVars, scorer, validator>>
    \/ (\E call \in ImageReturns : ImageEnd(call))
          /\ UNCHANGED <<fetchVars, scorer, validator>>
    \/ ImageSkip /\ UNCHANGED <<fetchVars, scorer, validator>>
    \/ (\E k \in 1..Len(stale) : \E call \in SnippetReturns :
            StaleSnippetEnd(k, call))
          /\ UNCHANGED <<fetchVars, scorer, validator>>
    \/ (\E k \in 1..Len(stale) : \E call \in ImageReturns :
            StaleImageEnd(k, call))
          /\ UNCHANGED <<fetchVars, scorer, validator>>

Spec == Init /\ [][Next]_vars

\* The script runs of a session that follow one another, each starting when
\* the one before has ended, with the record of the calls that timed out
NextInTurn ==
    \/ Idle /\ EnrichCached /\ UNCHANGED <<fetchVars, scorer, validator>>
    \/ Idle /\ EnrichStart /\ UNCHANGED <<fetchVars, scorer, validator>>
    \/ SnippetBegin /\ UNCHANGED <<fetchVars, scorer, validator>>
    \/ (\E call \in SnippetCalls : SnippetEnd(call))
          /\ UNCHANGED <<fetchVars, scorer, validator>>
    \/ SnippetSkip /\ UNCHANGED <<fetchVars, scorer, validator>>
    \/ ImageBegin /\ UNCHANGED <<fetchVars, scorer, validator>>
    \/ (\E call \in ImageCalls : ImageEnd(call))
          /\ UNCHANGED <<fetchVars, scorer, validator>>
    \/ ImageSkip /\ UNCHANGED <<fetchVars, scorer, validator>>

SpecInTurn == Init /\ [][NextInTurn]_vars

\* fetch_content_with_retry on its own
InitFetch ==
    /\ FetchInit
    /\ raw = <<>>
    /\ df = <<>>
    /\ scraped_text = NoCache
    /\ scraped_image = NoCache
    /\ failed_snippets = {}
    /\ failed_images = {}
    /\ urls_to_fetch = <<>>
    /\ pos = 0
    /\ calls = NoCalls
    /\ timedOut = {}
    /\ stale = <<>>
    /\ prev = [df |-> NoRun, left |-> NoRun]
    /\ scorer = <<>>
    /\ validator = <<>>

IssueGet ==
    /\ GetStart
    /\ UNCHANGED <<raw, df, scraped_text, scraped_image, failed_snippets,
                   failed_images, urls_to_fetch, pos, calls, timedOut, stale,
                   prev, scorer, validator>>

Wake ==
    /\ SleepEnd
    /\ UNCHANGED <<raw, df, scraped_text, scraped_image, failed_snippets,
                   failed_images, urls_to_fetch, pos, calls, timedOut, stale,
                   prev, scorer, validator>>

NextFetch ==
    \/ IssueGet
    \/ (\E o \in Outcomes : FetchAttempt(o))
          /\ UNCHANGED <<raw, df, scraped_text, scraped_image, failed_snippets,
                         failed_images, urls_to_fetch, pos, calls, timedOut,
                         stale, prev, scorer, validator>>
    \/ Wake

SpecFetch == InitFetch /\ [][NextFetch]_vars

\* The loop is sequential code: time.sleep returns after its delay, and the
\* loop then issues the next GET or returns.  Nothing makes a GET end:
\* timeout=15 (line 77) bounds the wait for the connection and for each
\* read, not the duration of the request, so no fairness is stated for the
\* end of a GET.
SpecFetchLive == SpecFetch /\ WF_vars(IssueGet) /\ WF_vars(Wake)

-----------------------------------------------------------------------------
(* assign_labels_and_scores *)

KwProRussia == <<
    <<"r", "u", "s", "s", "i", "a">>,
    <<"k", "r", "e", "m", "l", "i", "n">>,
    <<"p", "u", "t", "i", "n">>,
    <<"r", "u", "s", "s", "i", "a", "n", " ", "f", "o", "r", "c", "e", "s">>,
    <<"m", "o", "s", "c", "o", "w">>,
    <<"r", "u", "s", "s", "i", "a", "n", " ", "i", "n", "f", "l", "u", "e",
      "n", "c", "e">>,
    <<"r", "u", "s", "s", "i", "a", " ", "p", "a", "r", "t", "n", "e", "r",
      "s", "h", "i", "p">> >>

KwAntiWest == <<
    <<"w", "e", "s", "t", "e", "r", "n", " ", "s", "a", "n", "c", "t", "i",
      "o", "n", "s">>,
    <<"w", "e", "s", "t", "e", "r", "n", " ", "i", "n", "t", "e", "r", "f",
      "e", "r", "e", "n", "c", "e">>,
    <<"n", "a", "t", "o">>,
    <<"e", "u", " ", "p", "o", "l", "i", "c", "y">>,
    <<"w", "e", "s", "t", "e", "r", "n", " ", "p", "o", "w", "e", "r", "s">>,
    <<"w", "e", "s", "t", "e", "r", "n", " ", "i", "n", "t", "e", "r", "e",
      "s", "t", "s">>,
    <<"w", "e", "s", "t", "e", "r", "n", " ", "h", "y", "p", "o", "c", "r",
      "i", "s", "y">> >>

KwAntiFrance == <<
    <<"f", "r", "a", "n", "c", "e", " ", "c", "o", "l", "o", "n", "i", "a",
      "l", "i", "s", "m">>,
    <<"f", "r", "e", "n", "c", "h", " ", "i", "n", "f", "l", "u", "e", "n",
      "c", "e">>,
    <<"p", "a", "r", "i", "s", " ", "p", "o", "l", "i", "c", "y">>,
    <<"f", "r", "e", "n", "c", "h", " ", "t", "r", "o", "o", "p", "s">>,
    <<"f", "r", "a", "n", "c", "a", "f", "r", "i", "q", "u", "e">>,
    <<"a", "n", "t", "i", "-", "f", "r", "a", "n", "c", "e", " ", "s", "e",
      "n", "t", "i", "m", "e", "n", "t">>,
    <<"f", "r", "e", "n", "c", "h", " ", "w", "i", "t", "h", "d", "r", "a",
      "w", "a", "l">> >>

KwAntiUS == <<
    <<"a", "n", "t", "i", "-", "a", "m", "e", "r", "i", "c", "a", "n">>,
    <<"u", "s", " ", "a", "g", "g", "r", "e", "s", "s", "i", "o", "n">>,
    <<"u", "s", " ", "i", "n", "t", "e", "r", "f", "e", "r", "e", "n", "c",
      "e">>,
    <<"u", "s", " ", "s", "a", "n", "c", "t", "i", "o", "n", "s">>,
    <<"a", "m", "e", "r", "i", "c", "a", "n", " ", "h", "e", "g", "e", "m",
      "o", "n", "y">>,
    <<"u", "s", " ", "i", "m", "p", "e", "r", "i", "a", "l", "i", "s", "m">>,
    <<"u", "s", " ", "m", "i", "l", "i", "t", "a", "r", "y", " ", "p", "r",
      "e", "s", "e", "n", "c", "e">>,
    <<"u", "s", " ", "m", "e", "d", "d", "l", "i", "n", "g">>,
    <<"u", "s", " ", "f", "a", "i", "l", "e", "d", " ", "p", "o", "l", "i",
      "c", "y">>,
    <<"u", "s", "-", "l", "e", "d">>,
    <<"c", "r", "i", "t", "i", "c", "i", "s", "m", " ", "o", "f", " ", "u",
      "s">>,
    <<"c", "o", "n", "d", "e", "m", "n", " ", "u", "s">>,
    <<"u", "s", " ", "w", "i", "t", "h", "d", "r", "a", "w">> >>

KwSensationalist == <<
    <<"s", "h", "o", "c", "k", "i", "n", "g">>,
    <<"u", "r", "g", "e", "n", "t">>,
    <<"b", "r", "e", "a", "k", "i", "n", "g", " ", "n", "e", "w", "s">>,
    <<"e", "x", "c", "l", "u", "s", "i", "v", "e">>,
    <<"b", "o", "m", "b", "s", "h", "e", "l", "l">>,
    <<"c", "r", "i", "s", "i", "s">>,
    <<"s", "c", "a", "n", "d", "a", "l">>,
    <<"e", "x", "p", "l", "o", "s", "i", "v", "e">>,
    <<"r", "e", "v", "e", "a", "l">>,
    <<"w", "a", "r", "n", "i", "n", "g">>,
    <<"c", "a", "t", "a", "s", "t", "r", "o", "p", "h", "e">>,
    <<"u", "n", "p", "r", "e", "c", "e", "d", "e", "n", "t", "e", "d">> >>

KwOpinion == <<
    <<"o", "p", "i", "n", "i", "o", "n">>,
    <<"a", "n", "a", "l", "y", "s", "i", "s">>,
    <<"c", "o", "m", "m", "e", "n", "t", "a", "r", "y">>,
    <<"v", "i", "e", "w", "p", "o", "i", "n", "t">>,
    <<"p", "e", "r", "s", "p", "e", "c", "t", "i", "v", "e">>,
    <<"c", "o", "l", "u", "m", "n">>,
    <<"e", "d", "i", "t", "o", "r", "i", "a", "l">>,
    <<"b", "l", "o", "g">>,
    <<"c", "r", "i", "t", "i", "q", "u", "e">> >>

KwBusiness == <<
    <<"e", "c", "o", "n", "o", "m", "y">>,
    <<"b", "u", "s", "i", "n", "e", "s", "s">>,
    <<"m", "a", "r", "k", "e", "t">>,
    <<"f", "i", "n", "a", "n", "c", "e">>,
    <<"i", "n", "v", "e", "s", "t", "m", "e", "n", "t">>,
    <<"t", "r", "a", "d", "e">>,
    <<"g", "r", "o", "w", "t", "h">>,
    <<"i", "n", "d", "u", "s", "t", "r", "y">>,
    <<"c", "u", "r", "r", "e", "n", "c", "y">>,
    <<"r", "e", "v", "e", "n", "u", "e">>,
    <<"j", "o", "b", "s">>,
    <<"c", "o", "m", "m", "e", "r", "c", "e">>,
    <<"d", "e", "v", "e", "l", "o", "p", "m", "e", "n", "t">> >>

KwPolitics == <<
    <<"g", "o", "v", "e", "r", "n", "m", "e", "n", "t">>,
    <<"e", "l", "e", "c", "t", "i", "o", "n">>,
    <<"p", "a", "r", "l", "i", "a", "m", "e", "n", "t">>,
    <<"p", "r", "e", "s", "i", "d", "e", "n", "t">>,
    <<"p", "o", "l", "i", "c", "y">>,
    <<"d", "i", "p", "l", "o", "m", "a", "c", "y">>,
    <<"g", "o", "v", "e", "r", "n", "a", "n", "c", "e">>,
    <<"d", "e", "m", "o", "c", "r", "a", "c", "y">>,
    <<"c", "o", "u", "p">>,
    <<"p", "r", "o", "t", "e", "s", "t">>,
    <<"l", "e", "g", "i", "s", "l", "a", "t", "i", "o", "n">>,
    <<"p", "o", "l", "i", "t", "i", "c", "a", "l", " ", "p", "a", "r", "t",
      "y">>,
    <<"r", "e", "f", "o", "r", "m", "s">> >>

\* KEYWORD_LABELS, in the order of the dict
KEYWORD_LABELS == <<
    [label |-> "Pro-Russia", keywords |-> KwProRussia],
    [label |-> "Anti-West", keywords |-> KwAntiWest],
    [label |-> "Anti-France", keywords |-> KwAntiFrance],
    [label |-> "Anti-US", keywords |-> KwAntiUS],
    [label |-> "Sensationalist", keywords |-> KwSensationalist],
    [label |-> "Opinion", keywords |-> KwOpinion],
    [label |-> "Business", keywords |-> KwBusiness],
    [label |-> "Politics", keywords |-> KwPolitics] >>

KeywordWeight == 20
StrongThreshold == 30
MaxScore == 100
FactualBase == 70
NeutralBase == 60
JitterMax == 10

\* random.uniform(-0.1, 0.1), in hundredths
Jitters == (0 - JitterMax)..JitterMax

KeywordLabelNames == {KEYWORD_LABELS[l].label : l \in 1..Len(KEYWORD_LABELS)}

\* line 39
labels == KeywordLabelNames \cup {"Factual", "Neutral"}

KeywordsOf(label) ==
    KEYWORD_LABELS[CHOOSE l \in 1..Len(KEYWORD_LABELS) :
                      KEYWORD_LABELS[l].label = label].keywords

\* str(v or '')
StrOrEmpty(v) == IF Truthy(v) THEN v ELSE <<>>

\* line 44
combined_text(headline, text) ==
    Lower(StrOrEmpty(headline)) \o <<" ">> \o Lower(StrOrEmpty(text))

\* Mutant: the keyword counts wherever it occurs, inside a longer word too.
KeywordHit_Substring(keyword, ct) == Contains(ct, keyword)

\* lines 50-52
KeywordHit(keyword, ct) ==
    \/ Contains(ct, <<" ">> \o keyword \o <<" ">>)
    \/ StartsWith(ct, keyword \o <<" ">>)
    \/ EndsWith(ct, <<" ">> \o keyword)

HitCount(keywords, ct) ==
    Cardinality({k \in 1..Len(keywords) : KeywordHit(keywords[k], ct)})

\* lines 48-53: score after the loop over the keywords of one label
KeywordScore(label, ct) == KeywordWeight * HitCount(KeywordsOf(label), ct)

\* lines 47-53: the score of every keyword label of one row
KeywordScores(headline, text) ==
    [label \in KeywordLabelNames |->
        KeywordScore(label, combined_text(headline, text))]

\* Mutant: any keyword hit counts as a strong label.
found_strong_labels_AnyHit(ks) ==
    \E label \in KeywordLabelNames : ks[label] > 0

\* lines 46, 54-57
found_strong_labels(ks) ==
    \E label \in KeywordLabelNames : ks[label] >= StrongThreshold

\* lines 64-65: clip(upper=1.0)
Clip(x) == Min(x, MaxScore)

ZeroScores == [label \in labels |-> 0]

\* lines 41 and 54-55: the label columns of one row after the loop over
\* KEYWORD_LABELS, when its keyword scores are ks
KeywordColumns(ks) ==
    [label \in labels |->
        IF label \in KeywordLabelNames /\ ks[label] > 0
        THEN Min(ks[label], MaxScore)
        ELSE 0]

\* Mutant: the jitter is drawn from [-1.0, 1.0].
CatchAllColumns_WideJitter(scores, strong, jf, jn) ==
    [label \in labels |->
        Clip(IF ~strong /\ label = "Factual" THEN FactualBase + 10 * jf
             ELSE IF ~strong /\ label = "Neutral" THEN NeutralBase + 10 * jn
             ELSE scores[label])]

\* Mutant: the centres of Factual and Neutral are swapped.
CatchAllColumns_SwappedBases(scores, strong, jf, jn) ==
    [label \in labels |->
        Clip(IF ~strong /\ label = "Factual" THEN NeutralBase + jf
             ELSE IF ~strong /\ label = "Neutral" THEN FactualBase + jn
             ELSE scores[label])]

\* lines 59-65: the catch-all labels of a row without a strong label, when
\* the two calls of random.uniform return jf and jn, and the final clip
CatchAllColumns(scores, strong, jf, jn) ==
    [label \in labels |->
        Clip(IF ~strong /\ label = "Factual" THEN FactualBase + jf
             ELSE IF ~strong /\ label = "Neutral" THEN NeutralBase + jn
             ELSE scores[label])]

\* The label columns of one row after assign_labels_and_scores.
assign_labels_and_scores(headline, text, jf, jn) ==
    CatchAllColumns(KeywordColumns(KeywordScores(headline, text)),
                    found_strong_labels(KeywordScores(headline, text)), jf, jn)

HRussiaMali == <<"R", "u", "s", "s", "i", "a", " ", "d", "e", "e", "p", "e",
  "n", "s", " ", "m", "i", "l", "i", "t", "a", "r", "y", " ", "p", "a", "r",
  "t", "n", "e", "r", "s", "h", "i", "p", " ", "w", "i", "t", "h", " ", "M",
  "a", "l", "i">>
HBakery == <<"L", "o", "c", "a", "l", " ", "b", "a", "k", "e", "r", "y", " ",
  "w", "i", "n", "s", " ", "a", "w", "a", "r", "d">>
HPutinNato == <<"P", "u", "t", "i", "n", " ", "a", "n", "d", " ", "K", "r",
  "e", "m", "l", "i", "n", " ", "w", "a", "r", "n", " ", "N", "A", "T", "O">>
HSixRussia == <<"M", "o", "s", "c", "o", "w", " ", "K", "r", "e", "m", "l",
  "i", "n", " ", "P", "u", "t", "i", "n", " ", "R", "u", "s", "s", "i", "a",
  " ", "r", "u", "s", "s", "i", "a", "n", " ", "f", "o", "r", "c", "e", "s",
  " ", "r", "u", "s", "s", "i", "a", "n", " ", "i", "n", "f", "l", "u", "e",
  "n", "c", "e">>
HPunct == <<"C", "r", "i", "s", "i", "s", ",", " ", "s", "c", "a", "n", "d",
  "a", "l", ":", " ", "R", "u", "s", "s", "i", "a", "'", "s", " ", "e", "c",
  "o", "n", "o", "m", "y">>
HCrisis == <<"c", "r", "i", "s", "i", "s">>
TEconomy == <<"t", "h", "e", " ", "e", "c", "o", "n", "o", "m", "y", " ",
  "a", "n", "d", " ", "t", "r", "a", "d", "e", " ", "g", "r", "o", "w", "t",
  "h">>
TMoscow == <<"s", "o", "u", "r", "c", "e", "s", " ", "i", "n", " ", "m", "o",
  "s", "c", "o", "w">>
TEmpty == <<>>

ScoreHeadlines == {None, HRussiaMali, HBakery, HPutinNato, HSixRussia, HPunct, HCrisis}
ScoreTexts == {None, TEmpty, TEconomy, TMoscow}

ScoreInit ==
    scorer \in [stage : {"input"}, headline : ScoreHeadlines, text : ScoreTexts,
                found_strong_labels : {FALSE}, scores : {ZeroScores}]

\* lines 43-57 for one row: the loop over KEYWORD_LABELS
ScanKeywords ==
    /\ scorer.stage = "input"
    /\ scorer' = [scorer EXCEPT
                    !.stage = "keywords",
                    !.found_strong_labels =
                        found_strong_labels(KeywordScores(scorer.headline, scorer.text)),
                    !.scores =
                        KeywordColumns(KeywordScores(scorer.headline, scorer.text))]

\* lines 59-65 for one row
CatchAll(jf, jn) ==
    /\ scorer.stage = "keywords"
    /\ scorer' = [scorer EXCEPT
                    !.stage = "scored",
                    !.scores = CatchAllColumns(scorer.scores,
                                               scorer.found_strong_labels, jf, jn)]

-----------------------------------------------------------------------------
(* is_valid_image_url on its own *)

VPaths == {
    <<>>,
    <<"h", "t", "t", "p", "s", ":", "/", "/", "c", "d", "n", ".", "s", "i",
      "t", "e", ".", "c", "o", "m", "/">> }

VNames == {
    <<>>,
    <<"p", "h", "o", "t", "o", "1", "2", "3">>,
    <<"l", "o", "g", "o", "-", "s", "m", "a", "l", "l">>,
    <<"L", "O", "G", "O">>,
    <<"B", "a", "n", "n", "e", "r">>,
    <<"r", "o", "a", "d">>,
    <<"a", "d", "s">>,
    <<"f", "a", "v", "i", "c", "o", "n">>,
    <<"S", "p", "o", "n", "s", "o", "r", "e", "d">>,
    <<"d", "o", "u", "b", "l", "e", "c", "l", "i", "c", "k">>,
    <<"p", "l", "a", "c", "e", "h", "o", "l", "d", "e", "r">>,
    <<"p", "i", "x", "e", "l">>,
    <<"l", "e", "g", "o">>,
    \* "DOUBLECLIC" and the Kelvin sign, which lower() turns into "k"
    <<"D", "O", "U", "B", "L", "E", "C", "L", "I", "C", "U+212A">>,
    \* "G", capital I with dot above, "F": lower() gives "g", "i", U+0307, "f"
    <<"G", "U+0130", "F">> }

VExtensions == {
    <<>>,
    <<".", "j", "p", "g">>,
    <<".", "p", "n", "g">>,
    <<".", "g", "i", "f">>,
    <<".", "G", "I", "F">>,
    <<".", "w", "e", "b", "p">> }

ValidatorUrls ==
    {None} \cup {a \o b \o c : a \in VPaths, b \in VNames, c \in VExtensions}

ValidatorInit ==
    validator \in [stage : {"input"}, url : ValidatorUrls,
                   raised : {FALSE}, value : {FALSE}]

Validate ==
    /\ validator.stage = "input"
    /\ validator' = [validator EXCEPT
                        !.stage = "done",
                        !.raised = is_valid_image_url(validator.url).raised,
                        !.value = is_valid_image_url(validator.url).value]

-----------------------------------------------------------------------------
(* The label scorer and the image validator, each on its own inputs *)

Parked ==
    /\ raw = <<>>
    /\ df = <<>>
    /\ pc = "idle"
    /\ scraped_text = NoCache
    /\ scraped_image = NoCache
    /\ failed_snippets = {}
    /\ failed_images = {}
    /\ urls_to_fetch = <<>>
    /\ pos = 0
    /\ calls = NoCalls
    /\ timedOut = {}
    /\ stale = <<>>
    /\ prev = [df |-> NoRun, left |-> NoRun]
    /\ fetch_type = "none"
    /\ i = 0
    /\ trace = <<>>
    /\ sleeps = <<>>
    /\ result = None

enrichVars == <<raw, df, pc, scraped_text, scraped_image, failed_snippets,
                failed_images, urls_to_fetch, pos, calls, timedOut, stale,
                prev>>

InitScore == Parked /\ ScoreInit /\ validator = <<>>

NextScore ==
    \/ ScanKeywords /\ UNCHANGED <<enrichVars, fetchVars, validator>>
    \/ (\E jf \in Jitters : \E jn \in Jitters : CatchAll(jf, jn))
          /\ UNCHANGED <<enrichVars, fetchVars, validator>>

SpecScore == InitScore /\ [][NextScore]_vars

InitValid == Parked /\ ValidatorInit /\ scorer = <<>>

NextValid == Validate /\ UNCHANGED <<enrichVars, fetchVars, scorer>>

SpecValid == InitValid /\ [][NextValid]_vars

-----------------------------------------------------------------------------
(* Properties of enrich_articles_with_scraping *)

Filled(v) == v # None /\ v # <<>>

\* C1: after enrich completes, every article has a non-null, non-empty text
\* and a non-null, non-empty image URL.
C1_EveryArticleFilled ==
    pc = "done" =>
        \A k \in 1..Len(df) : Filled(df[k].text) /\ Filled(df[k].urlToImage)

\* C2: when the preceding invocation on the same rows completed and the
\* cache is as it left it, the invocation that follows fetches nothing (it
\* takes the cached path, no call of fetch_content_with_retry) and returns
\* exactly the rows the preceding one returned.
C2_WarmRerunIdempotent ==
    prev.df # NoRun => pc = "done" /\ calls = NoCalls /\ df = prev.df

\* C2 witness: a rerun on a warm cache that holds a fetched snippet, a
\* headline fallback of a failed snippet and a failed image.
C2_Witness ==
    /\ prev.df # NoRun
    /\ pc = "done"
    /\ failed_images # {}
    /\ failed_snippets # {}
    /\ DOMAIN scraped_text # failed_snippets
    /\ \E k \in 1..Len(raw) : raw[k] # df[k]

\* C4: a URL whose fetch of a kind timed out on all retries is in the failed
\* set of that kind; no later step calls the fetcher for that URL and kind;
\* and an invocation that completes without fetching it returns its rows
\* that miss that kind with a fallback value.
C4_TimedOutUrlFailsForGood ==
    /\ [](/\ \A u \in Urls :
                /\ <<u, "snippet">> \in timedOut => u \in failed_snippets
                /\ <<u, "image">> \in timedOut => u \in failed_images
          /\ pc = "done" =>
                \A k \in 1..Len(raw) :
                    /\ (/\ <<raw[k].url, "snippet">> \in timedOut
                        /\ calls[<<raw[k].url, "snippet">>] = 0
                        /\ needs_text(raw[k])) => Filled(df[k].text)
                    /\ (/\ <<raw[k].url, "image">> \in timedOut
                        /\ calls[<<raw[k].url, "image">>] = 0
                        /\ needs_image(raw[k])) => Filled(df[k].urlToImage))
    /\ [][\A c \in timedOut : calls'[c] <= calls[c]]_vars

\* C5: no exception leaves enrich: the invocation never ends in a raise.
C5_NoExceptionEscapes == pc # "raised"

\* C10: an article whose input text is not blank has that text after enrich,
\* and one whose input image URL is not blank has that image URL.
C10_FilledFieldsKept ==
    pc = "done" =>
        \A k \in 1..Len(raw) :
            /\ ~needs_text(raw[k]) => df[k].text = raw[k].text
            /\ ~needs_image(raw[k]) => df[k].urlToImage = raw[k].urlToImage

\* C11: in an invocation the worklist holds no URL twice, and the fetcher is
\* called at most once per worklist URL, one call serving both the text and
\* the image of that URL.
C11_OneFetchPerDistinctUrl ==
    /\ \A j \in 1..Len(urls_to_fetch) : \A k \in 1..Len(urls_to_fetch) :
           urls_to_fetch[j] = urls_to_fetch[k] => j = k
    /\ \A u \in Urls : calls[<<u, "snippet">>] + calls[<<u, "image">>] <= 1

\* C14: no step replaces or removes a value url_to_text or url_to_image
\* holds, and no step removes a URL from a failed set.
C14_CacheWriteOnce ==
    [][/\ \A u \in DOMAIN scraped_text :
            u \in DOMAIN scraped_text' /\ scraped_text'[u] = scraped_text[u]
       /\ \A u \in DOMAIN scraped_image :
            u \in DOMAIN scraped_image' /\ scraped_image'[u] = scraped_image[u]
       /\ failed_snippets \subseteq failed_snippets'
       /\ failed_images \subseteq failed_images']_vars

\* C15: whenever no invocation is running (before the first one, after one
\* that returned, after one that raised), every URL of the failed-snippet
\* set has an entry in url_to_text, and no URL is both in url_to_image and
\* in the failed-image set.
C15_CacheConsistentBetweenRuns ==
    Idle =>
        /\ failed_snippets \subseteq DOMAIN scraped_text
        /\ DOMAIN scraped_image \cap failed_images = {}

-----------------------------------------------------------------------------
(* Properties of fetch_content_with_retry *)

\* C3: a call to a URL whose server answers every GET with 403 or 404
\* returns None after one GET, without a sleep.
C3_TerminalStatusFetchedOnce ==
    (pc = "returned" /\ \A k \in 1..Len(trace) : trace[k].status \in {403, 404}) =>
        Len(trace) = 1 /\ sleeps = <<>> /\ result = None

NetworkFailures == {"Timeout", "ConnectionError", "Exception"}

AllAttemptsFailed == \A k \in 1..Len(trace) : trace[k].exc \in NetworkFailures

\* Every GET that was issued ends: no attempt lasts for ever.
EveryGetEnds == []<>(pc # "get")

-----------------------------------------------------------------------------
(* Properties of assign_labels_and_scores *)

Scored == scorer.stage = "scored"

\* C6: after assign_labels_and_scores every label score of the row lies in
\* [0.0, 1.0], whatever the headline, the text and the two jitter values.
C6_ScoresInUnitInterval ==
    Scored => \A label \in labels :
                  0 <= scorer.scores[label] /\ scorer.scores[label] <= 100

\* C6 witness: six Pro-Russia keywords hit (1.2 before the clip) and the
\* score is 1.0.
C6_Witness ==
    /\ Scored
    /\ scorer.headline = HSixRussia
    /\ HitCount(KwProRussia, combined_text(scorer.headline, scorer.text)) = 6
    /\ scorer.scores["Pro-Russia"] = 100

NoOtherHits == scorer.text \in {None, TEmpty}

\* C7 as stated: for the headline "Russia deepens military partnership with
\* Mali" and no other keyword hits, Pro-Russia is at least 0.2 and Factual
\* and Neutral are 0.0.
C7_Original ==
    (Scored /\ scorer.headline = HRussiaMali /\ NoOtherHits) =>
        /\ scorer.scores["Pro-Russia"] >= 20
        /\ scorer.scores["Factual"] = 0
        /\ scorer.scores["Neutral"] = 0

\* C7 as amended: for that headline Pro-Russia is exactly 0.2 (one hit,
\* "russia"), every other keyword label is 0.0, and since 0.2 is below the
\* strong-label threshold Factual is in [0.6, 0.8] and Neutral in [0.5, 0.7].
C7_SingleHitIsNotStrong ==
    (Scored /\ scorer.headline = HRussiaMali /\ NoOtherHits) =>
        /\ scorer.scores["Pro-Russia"] = 20
        /\ \A label \in KeywordLabelNames \ {"Pro-Russia"} : scorer.scores[label] = 0
        /\ scorer.scores["Factual"] >= 60 /\ scorer.scores["Factual"] <= 80
        /\ scorer.scores["Neutral"] >= 50 /\ scorer.scores["Neutral"] <= 70

\* C7 witness: the headline was scored, with an empty text.
C7_Witness ==
    /\ Scored
    /\ scorer.headline = HRussiaMali
    /\ scorer.text = TEmpty
    /\ scorer.scores["Pro-Russia"] = 20
    /\ scorer.scores["Factual"] = 60

\* C8: a row none of whose keyword labels ends at 0.3 or more has Factual
\* in [0.6, 0.8] and Neutral in [0.5, 0.7]; a row one of whose keyword
\* labels ends at 0.3 or more has Factual and Neutral at 0.0.
C8_CatchAllLabels ==
    Scored =>
        IF \E label \in KeywordLabelNames : scorer.scores[label] >= 30
        THEN scorer.scores["Factual"] = 0 /\ scorer.scores["Neutral"] = 0
        ELSE /\ scorer.scores["Factual"] >= 60 /\ scorer.scores["Factual"] <= 80
             /\ scorer.scores["Neutral"] >= 50 /\ scorer.scores["Neutral"] <= 70

\* C8 witness: "Local bakery wins award" with an empty text was scored: no
\* keyword label is above 0.0 and the jitters are at their two ends.
C8_Witness ==
    /\ Scored
    /\ scorer.headline = HBakery
    /\ scorer.text = TEmpty
    /\ \A label \in KeywordLabelNames : scorer.scores[label] = 0
    /\ scorer.scores["Factual"] = 80
    /\ scorer.scores["Neutral"] = 50

\* keyword occurs in s as a whole word: at some position, with a space on
\* both sides, or at the start with a space after it, or at the end with a
\* space before it.
IsWholeWord(keyword, s) ==
    \E p \in 1..(Len(s) - Len(keyword) + 1) :
        LET q == p + Len(keyword) - 1
        IN  /\ SubSeq(s, p, q) = keyword
            /\ \/ p > 1 /\ s[p - 1] = " " /\ q < Len(s) /\ s[q + 1] = " "
               \/ p = 1 /\ q < Len(s) /\ s[q + 1] = " "
               \/ q = Len(s) /\ p > 1 /\ s[p - 1] = " "

WholeWordCount(label, s) ==
    Cardinality({k \in 1..Len(KeywordsOf(label)) :
                    IsWholeWord(KeywordsOf(label)[k], s)})

\* C13: the score of every keyword label of a row is min(1.0, 0.2 * n), n
\* being the number of keywords of that label that occur as a whole word in
\* lower(headline) + " " + lower(text); the keywords of the other labels do
\* not enter it.
C13_KeywordScoreIsCappedHitCount ==
    scorer.stage \in {"keywords", "scored"} =>
        \A label \in KeywordLabelNames :
            scorer.scores[label] =
                Min(100, 20 * WholeWordCount(label,
                        Lower(StrOrEmpty(scorer.headline)) \o <<" ">>
                            \o Lower(StrOrEmpty(scorer.text))))

\* C13 witness: "Crisis, scandal: Russia's economy" with the text "sources
\* in moscow" was scored: the words followed by punctuation do not count,
\* "economy" before the joining space and "moscow" at the end do, so two
\* labels are elevated at once.
C13_Witness ==
    /\ Scored
    /\ scorer.headline = HPunct
    /\ scorer.text = TMoscow
    /\ scorer.scores["Business"] = 20
    /\ scorer.scores["Pro-Russia"] = 20
    /\ scorer.scores["Sensationalist"] = 0

-----------------------------------------------------------------------------
(* Properties of is_valid_image_url *)

HasBlockedMarker(url) ==
    \E w \in 1..Len(blocked) : Contains(Lower(url), blocked[w])

\* C9: is_valid_image_url never raises; it returns false for a null or empty
\* URL and for a URL that contains a blocked marker, whatever the case of
\* its letters, and true for every other URL.
C9_ValidatorContract ==
    validator.stage = "done" =>
        /\ ~validator.raised
        /\ validator.value =
              (/\ validator.url # None
               /\ validator.url # <<>>
               /\ ~HasBlockedMarker(validator.url))

====
